---- MODULE Spec2Model ----
(***************************************************************************)
(* State-machine model of the world-map component                          *)
(* (src/openfreemap-worldmap/src/App.tsx, first component of the file).    *)
(*                                                                         *)
(* One action per event handler, timer callback, map event or network      *)
(* completion.  A handler is an operator from the component's state (a     *)
(* record with one field per variable) to the state it leaves behind; the  *)
(* React effects that the handler's state updates trigger run right after  *)
(* the re-render and are part of the same action.  Closures are modelled   *)
(* by what they captured: the map event handlers registered by the mount   *)
(* effect see the first render's state, a debounce timer and an in-flight  *)
(* request carry the values of the render that created them.               *)
(***************************************************************************)
EXTENDS Integers, Sequences, FiniteSets, TLC

VARIABLES
  alive,            \* the component tree is mounted (an effect that throws unmounts it)
  mapState,         \* "none" | "created" | "loaded" | "failed"  (mapRef / load event)
  zoomedIn,         \* map.getZoom() >= 4
  mapLang,          \* language of the text-field expression set on the map ("" = style default)
  status,           \* status text: "loading" | "" | "error" | "loadfail"
  lang,             \* useState lang
  query,            \* useState query
  suggestions,      \* useState suggestions
  showSuggestions,  \* useState showSuggestions
  searchTimerRef,   \* searchTimerRef.current (0 = null)
  timers,           \* pending setTimeout callbacks of the debounce
  searchAbortRef,   \* searchAbortRef.current (0 = null)
  searchFetches,    \* geocoder requests whose promise has not settled yet
  waypoints,        \* useState waypoints
  savedRoutes,      \* useState savedRoutes
  insertAfter,      \* useState insertAfter
  roadGeom,         \* useState roadGeom
  roadDistanceKm,   \* useState roadDistanceKm
  roadDurationMin,  \* useState roadDurationMin
  routingBusy,      \* useState routingBusy
  routeFetches,     \* routing requests whose promise has not settled yet
  routesSrc,        \* data of the map source "routes"
  roadSrc,          \* data of the map source "routes-road"
  overlays,         \* useState overlays
  overlayAbort,     \* overlayAbort.current
  overlayLoading,   \* useState overlayLoading
  overlaySrc,       \* data of the map sources "overlay-<key>"
  overlayLoads,     \* loadOverlay calls that have not returned yet
  favoritesRef,     \* favoritesRef.current
  favoritesSrc,     \* data of the map source "favorites"
  config,           \* useState config
  basesShared,      \* config.overpassBases is the array object of DEFAULT_CONFIG
  storage,          \* localStorage, the four worldmap.* keys
  uidCount,         \* number of uid() values handed out
  timerCount,       \* number of debounce timers created
  searchCount,      \* number of geocoder requests started
  routeCount,       \* number of routing requests started
  loadCount,        \* number of loadOverlay calls started
  decoder,          \* the Valhalla answer being decoded: leg shapes, locals of decodeValhallaShape
  lastSelectedRef,  \* lastSelectedRef.current
  camera,           \* the last fitBounds / flyTo call flyToSuggestion made on the map
  userMarkersRef,   \* userMarkersRef.current
  userMarkersSrc,   \* data of the map source "user-markers"
  suggestionsFrom,  \* observation: id of the search whose completion last set suggestions
  event             \* observation: the handler that ran last, with its argument

vars == <<alive, mapState, zoomedIn, mapLang, status, lang, query, suggestions,
          showSuggestions, searchTimerRef, timers, searchAbortRef, searchFetches,
          waypoints, savedRoutes, insertAfter, roadGeom, roadDistanceKm, roadDurationMin,
          routingBusy, routeFetches, routesSrc, roadSrc, overlays, overlayAbort,
          overlayLoading, overlaySrc, overlayLoads, favoritesRef, favoritesSrc,
          config, basesShared, storage, uidCount, timerCount, searchCount, routeCount,
          loadCount, decoder, lastSelectedRef, camera, userMarkersRef, userMarkersSrc,
          suggestionsFrom, event>>

\* The current state as a record; `thrown` marks an exception on its way up the stack.
S ==
  [alive |-> alive, mapState |-> mapState, zoomedIn |-> zoomedIn, mapLang |-> mapLang,
   status |-> status, lang |-> lang, query |-> query, suggestions |-> suggestions,
   showSuggestions |-> showSuggestions, searchTimerRef |-> searchTimerRef,
   timers |-> timers, searchAbortRef |-> searchAbortRef, searchFetches |-> searchFetches,
   waypoints |-> waypoints, savedRoutes |-> savedRoutes, insertAfter |-> insertAfter,
   roadGeom |-> roadGeom, roadDistanceKm |-> roadDistanceKm,
   roadDurationMin |-> roadDurationMin, routingBusy |-> routingBusy,
   routeFetches |-> routeFetches, routesSrc |-> routesSrc, roadSrc |-> roadSrc,
   overlays |-> overlays, overlayAbort |-> overlayAbort, overlayLoading |-> overlayLoading,
   overlaySrc |-> overlaySrc, overlayLoads |-> overlayLoads, favoritesRef |-> favoritesRef,
   favoritesSrc |-> favoritesSrc, config |-> config, basesShared |-> basesShared,
   storage |-> storage, uidCount |-> uidCount, timerCount |-> timerCount,
   searchCount |-> searchCount, routeCount |-> routeCount, loadCount |-> loadCount,
   decoder |-> decoder, lastSelectedRef |-> lastSelectedRef, camera |-> camera,
   userMarkersRef |-> userMarkersRef, userMarkersSrc |-> userMarkersSrc,
   suggestionsFrom |-> suggestionsFrom, event |-> event,
   thrown |-> FALSE]

\* The next state is the record n.
Apply(n) ==
  /\ alive' = n.alive /\ mapState' = n.mapState /\ zoomedIn' = n.zoomedIn
  /\ mapLang' = n.mapLang /\ status' = n.status /\ lang' = n.lang /\ query' = n.query
  /\ suggestions' = n.suggestions /\ showSuggestions' = n.showSuggestions
  /\ searchTimerRef' = n.searchTimerRef /\ timers' = n.timers
  /\ searchAbortRef' = n.searchAbortRef /\ searchFetches' = n.searchFetches
  /\ waypoints' = n.waypoints /\ savedRoutes' = n.savedRoutes
  /\ insertAfter' = n.insertAfter /\ roadGeom' = n.roadGeom
  /\ roadDistanceKm' = n.roadDistanceKm /\ roadDurationMin' = n.roadDurationMin
  /\ routingBusy' = n.routingBusy /\ routeFetches' = n.routeFetches
  /\ routesSrc' = n.routesSrc /\ roadSrc' = n.roadSrc /\ overlays' = n.overlays
  /\ overlayAbort' = n.overlayAbort /\ overlayLoading' = n.overlayLoading
  /\ overlaySrc' = n.overlaySrc /\ overlayLoads' = n.overlayLoads
  /\ favoritesRef' = n.favoritesRef /\ favoritesSrc' = n.favoritesSrc
  /\ config' = n.config /\ basesShared' = n.basesShared /\ storage' = n.storage
  /\ uidCount' = n.uidCount /\ timerCount' = n.timerCount
  /\ searchCount' = n.searchCount /\ routeCount' = n.routeCount
  /\ loadCount' = n.loadCount /\ suggestionsFrom' = n.suggestionsFrom
  /\ decoder' = n.decoder /\ lastSelectedRef' = n.lastSelectedRef /\ camera' = n.camera
  /\ userMarkersRef' = n.userMarkersRef /\ userMarkersSrc' = n.userMarkersSrc
  /\ event' = n.event

\* The variables hold the record n.
Holds(n) ==
  /\ alive = n.alive /\ mapState = n.mapState /\ zoomedIn = n.zoomedIn
  /\ mapLang = n.mapLang /\ status = n.status /\ lang = n.lang /\ query = n.query
  /\ suggestions = n.suggestions /\ showSuggestions = n.showSuggestions
  /\ searchTimerRef = n.searchTimerRef /\ timers = n.timers
  /\ searchAbortRef = n.searchAbortRef /\ searchFetches = n.searchFetches
  /\ waypoints = n.waypoints /\ savedRoutes = n.savedRoutes
  /\ insertAfter = n.insertAfter /\ roadGeom = n.roadGeom
  /\ roadDistanceKm = n.roadDistanceKm /\ roadDurationMin = n.roadDurationMin
  /\ routingBusy = n.routingBusy /\ routeFetches = n.routeFetches
  /\ routesSrc = n.routesSrc /\ roadSrc = n.roadSrc /\ overlays = n.overlays
  /\ overlayAbort = n.overlayAbort /\ overlayLoading = n.overlayLoading
  /\ overlaySrc = n.overlaySrc /\ overlayLoads = n.overlayLoads
  /\ favoritesRef = n.favoritesRef /\ favoritesSrc = n.favoritesSrc
  /\ config = n.config /\ basesShared = n.basesShared /\ storage = n.storage
  /\ uidCount = n.uidCount /\ timerCount = n.timerCount
  /\ searchCount = n.searchCount /\ routeCount = n.routeCount
  /\ loadCount = n.loadCount /\ suggestionsFrom = n.suggestionsFrom
  /\ decoder = n.decoder /\ lastSelectedRef = n.lastSelectedRef /\ camera = n.camera
  /\ userMarkersRef = n.userMarkersRef /\ userMarkersSrc = n.userMarkersSrc
  /\ event = n.event

----------------------------------------------------------------------------
(* Bounds *)

MaxTimers == 3     \* debounce timers created in one run
MaxSearches == 2   \* geocoder requests started in one run
MaxRoutes == 2     \* routing requests started in one run
MaxLoads == 3      \* loadOverlay calls started in one run
MaxUid == 2        \* uid() values handed out in one run
MaxWaypoints == 3  \* length of the waypoint list
MaxSaved == 2      \* length of the saved-route list
MaxFavorites == 2  \* length of the favorites list
MaxShape == 4      \* characters in the leg shapes of one Valhalla answer
MaxLegs == 2       \* legs of one Valhalla answer
MaxMarkers == 2    \* length of the user-marker list

\* The caps on counters and list lengths.
Bounded(n) ==
  /\ n.timerCount <= MaxTimers /\ n.searchCount <= MaxSearches
  /\ n.routeCount <= MaxRoutes /\ n.loadCount <= MaxLoads /\ n.uidCount <= MaxUid
  /\ Len(n.waypoints) <= MaxWaypoints /\ Len(n.savedRoutes) <= MaxSaved
  /\ Len(n.favoritesRef) <= MaxFavorites /\ Len(n.userMarkersRef) <= MaxMarkers

\* A handler's result becomes the next state; ev names the handler.
Do(n, ev) == Bounded(n) /\ Apply([n EXCEPT !.event = ev])

(* Value domains *)

None == <<>>                                 \* null / undefined / an absent storage key
Some(v) == <<v>>                             \* a value that may also be null
Empty == <<>>                                \* an empty list
NoCamera == [op |-> "none"]                  \* no camera call made yet
SUPPORTED_LANGS == {"de", "en"}              \* two of the four languages
Queries == {"", " ", "a", "b"}               \* "" and " " are blank under trim()
GeocoderBases == {"g0", "g1"}
OverpassBaseLists == {<<"o1", "o2">>, <<"o2">>}
OsrmBases == {"r0", "r1"}
ValhallaBases == {"v0", "v1"}
KeyOrder == <<"unesco", "beaches">>          \* Object.keys(overlays), two of the four keys
OverlayKeys == {KeyOrder[i] : i \in 1..Len(KeyOrder)}
Engines == {"osrm", "valhalla"}
Places == {<<"1", "2">>, <<"3", "4">>}       \* [lon, lat] pairs, numbers written as text

DEFAULT_CONFIG ==
  [geocoderBase |-> "g0", overpassBases |-> <<"o1", "o2">>,
   routingEngine |-> "osrm", osrmBase |-> "r0", valhallaBase |-> "v0"]

----------------------------------------------------------------------------
(* Search: debounce effect, runSearch *)

\* !q.trim()
Blank(q) == q \in {"", " "}

\* One GeoJSON feature of a geocoder answer: named after the query, at c, with the
\* bbox member box (None when the feature has none).
Feature(q, c, box) == [name |-> q, coordinates |-> c, bbox |-> box]

\* a mapping that keeps the box in the geocoder's axis order
mapFeature_unswapped(f, l, base) ==
  [id |-> "0", name |-> f.name, lang |-> l, base |-> base, center |-> f.coordinates,
   bbox |-> IF f.bbox # None /\ Len(f.bbox[1]) = 4 THEN f.bbox ELSE None,
   raw |-> f]

\* The callback of data.features.map in runSearch: center from the geometry, bbox with
\* each corner's two axes exchanged when f.bbox has four elements and undefined otherwise.
mapFeature(f, l, base) ==
  [id |-> "0", name |-> f.name, lang |-> l, base |-> base, center |-> f.coordinates,
   bbox |-> IF f.bbox # None /\ Len(f.bbox[1]) = 4
              THEN Some(<<f.bbox[1][2], f.bbox[1][1], f.bbox[1][4], f.bbox[1][3]>>)
              ELSE None,
   raw |-> f]

\* The suggestion made of a feature without a bbox member.
Suggestion(q, l, base, c) == mapFeature(Feature(q, c, None), l, base)

\* bbox members a feature can carry: none, four numbers, two numbers
Boxes == {None, Some(<<"10", "20", "30", "40">>), Some(<<"10", "20">>)}

\* The answers of a geocoder whose features carry the bbox members of `boxes`:
\* no feature, or one feature at some place.
BoxedResults(q, l, base, boxes) ==
  {Empty} \cup {<<mapFeature(Feature(q, c, box), l, base)>> : c \in Places, box \in boxes}

\* The answers of a geocoder whose features carry no bbox member.
GeocoderResults(q, l, base) == BoxedResults(q, l, base, {None})

\* clearTimeout(searchTimerRef.current)
clearTimeout(ts, ref) == {t \in ts : t.id # ref}

\* a runSearch that leaves the previous request running
abortSearch_skipped(fs, ref) == fs

\* searchAbortRef.current.abort()
abortSearch(fs, ref) ==
  {IF f.id = ref THEN [f EXCEPT !.aborted = TRUE] ELSE f : f \in fs}

\* useEffect[query, lang, config.geocoderBase], run after a render in which one of them changed
searchEffect(s) ==
  IF Blank(s.query)
    THEN [s EXCEPT !.suggestions = Empty, !.showSuggestions = FALSE, !.suggestionsFrom = 0]
    ELSE [s EXCEPT !.timers = clearTimeout(s.timers, s.searchTimerRef)
                                \cup {[id |-> s.timerCount + 1, q |-> s.query,
                                       lang |-> s.lang, base |-> s.config.geocoderBase]},
                   !.searchTimerRef = s.timerCount + 1,
                   !.timerCount = s.timerCount + 1]

\* runSearch(q) up to its first await; l and base are the lang and config.geocoderBase
\* of the render whose runSearch is called
runSearch(s, q, l, base) ==
  IF Blank(q)
    THEN [s EXCEPT !.suggestions = Empty, !.showSuggestions = FALSE, !.suggestionsFrom = 0]
    ELSE [s EXCEPT !.searchFetches = abortSearch(s.searchFetches, s.searchAbortRef)
                                       \cup {[id |-> s.searchCount + 1, q |-> q, lang |-> l,
                                              base |-> base, aborted |-> FALSE]},
                   !.searchAbortRef = s.searchCount + 1,
                   !.searchCount = s.searchCount + 1]

\* runSearch after its awaits: an aborted request rejects with AbortError, which the
\* catch ignores; any other rejection empties the list; an answer replaces the list
searchSettled(s, f, outcome, answer) ==
  LET a == [s EXCEPT !.searchFetches = s.searchFetches \ {f}] IN
  IF f.aborted THEN a
  ELSE IF outcome = "ok"
    THEN [a EXCEPT !.suggestions = answer, !.showSuggestions = TRUE, !.suggestionsFrom = f.id]
    ELSE [a EXCEPT !.suggestions = Empty, !.suggestionsFrom = f.id]

----------------------------------------------------------------------------
(* JSON text in localStorage.  A stored value is kept as the value JSON.parse
   gives back for it; JSON.stringify turns a number that is not finite (and an
   undefined array element) into null. *)

Finite(x) == x \notin {"NaN", "Infinity", "undefined", "null"}

jsonNumber(x) == IF Finite(x) THEN x ELSE "null"

jsonCoord(c) == [i \in 1..Len(c) |-> jsonNumber(c[i])]

jsonWaypoints(ws) == [i \in 1..Len(ws) |-> [ws[i] EXCEPT !.coord = jsonCoord(ws[i].coord)]]

jsonRoutes(rs) == [i \in 1..Len(rs) |-> [rs[i] EXCEPT !.waypoints = jsonWaypoints(rs[i].waypoints)]]

jsonFavorites(fs) == [i \in 1..Len(fs) |-> [fs[i] EXCEPT !.coordinates = jsonCoord(fs[i].coordinates)]]

----------------------------------------------------------------------------
(* Route: waypoint list, straight line, road route *)

MapExists(s) == s.mapState \in {"created", "loaded"}     \* mapRef.current is set
SourcesExist(s) == s.mapState = "loaded"                 \* the load handler has added the sources

coordsOf(ws) == [i \in 1..Len(ws) |-> ws[i].coord]

\* an effect threw: React unmounts the tree and the mount effect's cleanup removes the map
unmount(s) == [s EXCEPT !.alive = FALSE, !.mapState = "none", !.thrown = FALSE]

\* localStorage.setItem("worldmap.routes.current", JSON.stringify(waypoints))
persistCurrentRoute(s) == [s EXCEPT !.storage.current = Some(jsonWaypoints(s.waypoints))]

\* updateRouteLine: map.getSource("routes") is undefined until the load handler has run
updateRouteLine(s) ==
  IF ~MapExists(s) THEN s
  ELSE IF ~SourcesExist(s) THEN [s EXCEPT !.thrown = TRUE]
  ELSE persistCurrentRoute(
         [s EXCEPT !.routesSrc = IF Len(s.waypoints) >= 2 THEN <<coordsOf(s.waypoints)>> ELSE Empty])

\* a computation that asks OSRM whatever engine is selected
routingBase_osrm(cfg) == cfg.osrmBase

\* the base URL computeRoadRoute sends its request to
routingBase(cfg) == IF cfg.routingEngine = "osrm" THEN cfg.osrmBase ELSE cfg.valhallaBase

\* computeRoadRoute up to its first await.  With fewer than two waypoints and a map
\* without sources the setData call rejects the async function's promise after the
\* three setters have run.
computeRoadRoute(s) ==
  IF ~MapExists(s) THEN s
  ELSE IF Len(s.waypoints) < 2
    THEN [s EXCEPT !.roadGeom = None, !.roadDistanceKm = None, !.roadDurationMin = None,
                   !.roadSrc = IF SourcesExist(s) THEN Empty ELSE s.roadSrc]
    ELSE [s EXCEPT !.routingBusy = TRUE,
                   !.routeFetches = s.routeFetches
                                      \cup {[id |-> s.routeCount + 1, wps |-> s.waypoints,
                                             engine |-> s.config.routingEngine,
                                             base |-> routingBase(s.config)]},
                   !.routeCount = s.routeCount + 1]

\* useEffect[waypoints, config.routingEngine, config.osrmBase, config.valhallaBase]
routeEffect(s) ==
  LET a == updateRouteLine(s) IN
  IF a.thrown THEN unmount(a) ELSE computeRoadRoute(a)

\* what the routing service at f.base answers for the waypoints of request f
routeGeometry(f) == [engine |-> f.engine, base |-> f.base, coords |-> coordsOf(f.wps)]
routeDistanceKm(f) == Len(f.wps) - 1
routeDurationMin(f) == 2 * (Len(f.wps) - 1)

\* a catch block that resets the displayed route
routeFailed_reset(s) == [s EXCEPT !.roadGeom = None, !.roadDistanceKm = None, !.roadDurationMin = None]

\* catch (e) { /* silently ignore */ }
routeFailed(s) == s

\* computeRoadRoute after its awaits.  outcome "ok": a route came back; "empty": an
\* answer without route (OSRM) or without trip (Valhalla); "fail": the fetch rejected
\* or the status was not OK.  setData on a map without sources throws into the catch.
routeSettled(s, f, outcome) ==
  LET a == [s EXCEPT !.routeFetches = s.routeFetches \ {f}]
      src(g) == IF SourcesExist(s) THEN <<g>> ELSE s.roadSrc
      b == IF outcome = "fail" THEN routeFailed(a)
           ELSE IF outcome = "ok"
             THEN [a EXCEPT !.roadGeom = Some(routeGeometry(f)),
                            !.roadDistanceKm = Some(routeDistanceKm(f)),
                            !.roadDurationMin = Some(routeDurationMin(f)),
                            !.roadSrc = src(routeGeometry(f))]
           ELSE IF f.engine = "osrm" THEN a
           ELSE [a EXCEPT !.roadGeom = Some([routeGeometry(f) EXCEPT !.coords = Empty]),
                          !.roadDistanceKm = Some(0), !.roadDurationMin = Some(0),
                          !.roadSrc = src([routeGeometry(f) EXCEPT !.coords = Empty])]
  IN [b EXCEPT !.routingBusy = FALSE]

\* prev.findIndex(w => w.id === id), 0-based, -1 when absent
findIndex(ws, id) ==
  IF \E i \in 1..Len(ws) : ws[i].id = id
    THEN (CHOOSE i \in 1..Len(ws) : ws[i].id = id /\ \A j \in 1..(i - 1) : ws[j].id # id) - 1
    ELSE -1

\* arr.splice(at, 0, w) with a 0-based position
spliceIn(arr, at, w) == SubSeq(arr, 1, at) \o <<w>> \o SubSeq(arr, at + 1, Len(arr))

\* arr.splice(at, 1) with a 0-based position
spliceOut(arr, at) == SubSeq(arr, 1, at) \o SubSeq(arr, at + 2, Len(arr))

\* an updater that puts the waypoint in front of position index
insertWaypoint_before(prev, w, index) ==
  IF index = None \/ index[1] < 0 \/ index[1] >= Len(prev) THEN Append(prev, w)
  ELSE spliceIn(prev, index[1], w)

\* the updater of addWaypointAt
insertWaypoint(prev, w, index) ==
  IF index = None \/ index[1] < 0 \/ index[1] >= Len(prev) THEN Append(prev, w)
  ELSE spliceIn(prev, index[1] + 1, w)

addWaypointAt(s, coord, name, index) ==
  [s EXCEPT !.waypoints = insertWaypoint(s.waypoints,
                                         [id |-> s.uidCount + 1, name |-> name, coord |-> coord],
                                         index),
            !.uidCount = s.uidCount + 1]

\* a filter with the inverted test
removeWaypoint_inverted(s, id) ==
  [s EXCEPT !.waypoints = SelectSeq(s.waypoints, LAMBDA w : w.id = id)]

removeWaypoint(s, id) ==
  [s EXCEPT !.waypoints = SelectSeq(s.waypoints, LAMBDA w : w.id # id)]

\* moveWaypoint returns prev itself (no re-render) unless the move is possible
moveApplies(prev, id, dir) ==
  findIndex(prev, id) >= 0 /\ findIndex(prev, id) + dir >= 0
    /\ findIndex(prev, id) + dir < Len(prev)

moveWaypoint(s, id, dir) ==
  LET prev == s.waypoints
      i == findIndex(prev, id)
  IN IF ~moveApplies(prev, id, dir) THEN s
     ELSE [s EXCEPT !.waypoints = spliceIn(spliceOut(prev, i), i + dir, prev[i + 1])]

\* clearRoute: the setters run, then setData throws out of the click handler when the
\* map has no sources yet
clearRoute(s) ==
  [s EXCEPT !.waypoints = Empty, !.roadGeom = None, !.roadDistanceKm = None,
            !.roadDurationMin = None,
            !.roadSrc = IF SourcesExist(s) THEN Empty ELSE s.roadSrc]


----------------------------------------------------------------------------
(* Saved routes and favorites *)

\* localStorage.setItem("worldmap.routes.saved", JSON.stringify(list))
persistSavedRoutes(s, list) == [s EXCEPT !.storage.saved = Some(jsonRoutes(list))]

\* a saveCurrentRoute that appends the new route
saveCurrentRoute_append(s, name) ==
  LET r == [id |-> s.uidCount + 1, name |-> name, waypoints |-> s.waypoints]
      list == s.savedRoutes \o <<r>>
  IN persistSavedRoutes([s EXCEPT !.savedRoutes = list, !.uidCount = s.uidCount + 1], list)

saveCurrentRoute(s, name) ==
  LET r == [id |-> s.uidCount + 1, name |-> name, waypoints |-> s.waypoints]
      list == <<r>> \o s.savedRoutes
  IN persistSavedRoutes([s EXCEPT !.savedRoutes = list, !.uidCount = s.uidCount + 1], list)

\* loadRoute returns without a state update when no saved route has the id
loadApplies(s, id) == findIndex(s.savedRoutes, id) >= 0

\* a loadRoute that takes the newest saved route whatever the id
loadRoute_first(s, id) ==
  IF ~loadApplies(s, id) THEN s
  ELSE [s EXCEPT !.waypoints = s.savedRoutes[1].waypoints]

loadRoute(s, id) ==
  IF ~loadApplies(s, id) THEN s
  ELSE [s EXCEPT !.waypoints = s.savedRoutes[findIndex(s.savedRoutes, id) + 1].waypoints]

deleteRoute(s, id) ==
  LET list == SelectSeq(s.savedRoutes, LAMBDA x : x.id # id)
  IN persistSavedRoutes([s EXCEPT !.savedRoutes = list], list)

\* localStorage.setItem("worldmap.favorites", JSON.stringify(favoritesRef.current))
persistFavorites(s) == [s EXCEPT !.storage.favorites = Some(jsonFavorites(s.favoritesRef))]

\* addFavorite: push, setData on the "favorites" source (undefined until the load
\* handler has run, so the call throws), persist
addFavorite(s, lngLat, title) ==
  LET a == [s EXCEPT !.favoritesRef =
                       Append(s.favoritesRef,
                              [coordinates |-> lngLat, title |-> title, icon |-> "star-15"])]
  IN IF ~SourcesExist(s) THEN [a EXCEPT !.thrown = TRUE]
     ELSE persistFavorites([a EXCEPT !.favoritesSrc = a.favoritesRef])

addSuggestionToFavorites(s, sug) ==
  IF ~MapExists(s) THEN s ELSE addFavorite(s, sug.center, sug.name)

\* addUserMarker: push, then setData on the "user-markers" source (undefined until the
\* load handler has run, so the call throws)
addUserMarker(s, lngLat, title) ==
  LET a == [s EXCEPT !.userMarkersRef =
                       Append(s.userMarkersRef, [coordinates |-> lngLat, title |-> title])]
  IN IF ~SourcesExist(s) THEN [a EXCEPT !.thrown = TRUE]
     ELSE [a EXCEPT !.userMarkersSrc = a.userMarkersRef]

\* clearUserMarkers: the list is emptied first; setData throws on a map without sources
clearUserMarkers(s) ==
  LET a == [s EXCEPT !.userMarkersRef = Empty]
  IN IF ~MapExists(s) THEN a
     ELSE IF ~SourcesExist(s) THEN [a EXCEPT !.thrown = TRUE]
     ELSE [a EXCEPT !.userMarkersSrc = Empty]

\* flyToSuggestion: fitBounds on the two corners rebuilt from s.bbox, or flyTo the
\* centre when s.bbox is undefined; then the marker and the closing of the list
flyToSuggestion(s, sug) ==
  IF ~MapExists(s) THEN s
  ELSE LET b == sug.bbox
           a == [s EXCEPT !.lastSelectedRef = Some(sug),
                          !.camera = IF b # None
                                       THEN [op |-> "fitBounds",
                                             bounds |-> <<<<b[1][2], b[1][1]>>, <<b[1][4], b[1][3]>>>>]
                                       ELSE [op |-> "flyTo", center |-> sug.center]]
           m == addUserMarker(a, sug.center, sug.name)
       IN IF m.thrown THEN m ELSE [m EXCEPT !.showSuggestions = FALSE]

\* a restore that also resets the overlay flags
restoreFromStorage_flags(s) ==
  [s EXCEPT !.favoritesRef = IF s.storage.favorites = None THEN Empty ELSE s.storage.favorites[1],
            !.favoritesSrc = IF s.storage.favorites = None THEN Empty ELSE s.storage.favorites[1],
            !.savedRoutes = IF s.storage.saved = None THEN Empty ELSE s.storage.saved[1],
            !.waypoints = IF s.storage.current = None THEN Empty ELSE s.storage.current[1],
            !.config = IF s.storage.config = None THEN s.config ELSE s.storage.config[1],
            !.basesShared = s.basesShared /\ s.storage.config = None,
            !.overlays = [k \in DOMAIN s.overlays |-> FALSE]]

\* JSON.parse(localStorage.getItem(key) || "[]")
storedList(v) == IF v = None THEN Empty ELSE v[1]

\* restoreFromStorage, called by the load handler (the sources exist)
restoreFromStorage(s) ==
  LET a == [s EXCEPT !.favoritesRef = storedList(s.storage.favorites),
                     !.favoritesSrc = storedList(s.storage.favorites),
                     !.savedRoutes = storedList(s.storage.saved),
                     !.waypoints = storedList(s.storage.current)]
  IN IF s.storage.config = None THEN a
     ELSE [a EXCEPT !.config = s.storage.config[1], !.basesShared = FALSE]

----------------------------------------------------------------------------
(* Overlays *)

NoFlags == [k \in OverlayKeys |-> FALSE]

\* an abort that leaves the load running
abortOverlay_skipped(lds, ref) == lds

\* overlayAbort.current[key].abort()
abortOverlay(lds, ref) ==
  {IF ld.id = ref THEN [ld EXCEPT !.aborted = TRUE] ELSE ld : ld \in lds}

\* clearOverlay
clearOverlay(s, key) ==
  IF ~MapExists(s) THEN s
  ELSE [s EXCEPT !.overlaySrc[key] = Empty,
                 !.overlayLoads = abortOverlay(s.overlayLoads, s.overlayAbort[key]),
                 !.overlayAbort[key] = 0,
                 !.overlayLoading[key] = FALSE]

\* loadOverlay up to its first await; without a configured base the loop body never
\* runs and the loading flag is cleared at once
loadOverlay(s, key) ==
  LET a == [s EXCEPT !.overlayLoads = abortOverlay(s.overlayLoads, s.overlayAbort[key]),
                     !.overlayAbort[key] = s.loadCount + 1,
                     !.overlayLoading[key] = TRUE,
                     !.loadCount = s.loadCount + 1]
  IN IF Len(s.config.overpassBases) = 0 THEN [a EXCEPT !.overlayLoading[key] = FALSE]
     ELSE [a EXCEPT !.overlayLoads = a.overlayLoads
                                       \cup {[id |-> s.loadCount + 1, key |-> key,
                                              bases |-> s.config.overpassBases, i |-> 1,
                                              aborted |-> FALSE]}]

\* the forEach of reloadActiveOverlays from the n-th key on, with the flags ovs of the
\* render whose reloadActiveOverlays is called
RECURSIVE reloadFrom(_, _, _)
reloadFrom(s, ovs, n) ==
  IF n > Len(KeyOrder) THEN s
  ELSE LET k == KeyOrder[n] IN
       reloadFrom(IF ovs[k] /\ s.zoomedIn THEN loadOverlay(s, k) ELSE clearOverlay(s, k),
                  ovs, n + 1)

reloadActiveOverlays(s, ovs) == IF ~MapExists(s) THEN s ELSE reloadFrom(s, ovs, 1)

\* useEffect[overlays, config.overpassBases]
overlayEffect(s) == reloadActiveOverlays(s, s.overlays)

\* the features an Overpass base answers for load ld
overlayAnswer(ld) == <<[load |-> ld.id, key |-> ld.key, base |-> ld.bases[ld.i]]>>

\* !x for a coordinate member: undefined, null, NaN and 0 are falsy
Falsy(x) == x \in {"undefined", "null", "NaN", "0"}

\* overpassElementToPointFeature: None for null.  An element is a record with type,
\* tags (a function from tag keys to values), lon, lat ("undefined" when absent) and
\* center (None when absent, else Some of a record with lon and lat).
overpassElementToPointFeature(el, l) ==
  LET keys == <<"name:" \o l, "name:latin", "name">>
      found == {i \in 1..3 : keys[i] \in DOMAIN el.tags}
      name == IF found = {} THEN None
              ELSE Some(el.tags[keys[CHOOSE i \in found : \A j \in found : i <= j]])
      coord == IF el.type = "node" THEN <<el.lon, el.lat>>
               ELSE IF el.center = None THEN <<"undefined", "undefined">>
               ELSE <<el.center[1].lon, el.center[1].lat>>
  IN IF Falsy(coord[1]) \/ Falsy(coord[2]) THEN None
     ELSE Some([coordinates |-> coord, title |-> IF name = None THEN "Objekt" ELSE name[1]])

\* (json.elements || []).map(el => overpassElementToPointFeature(el, lang)).filter(Boolean)
elementFeatures(els, l) ==
  LET kept == SelectSeq([i \in 1..Len(els) |-> overpassElementToPointFeature(els[i], l)],
                        LAMBDA f : f # None)
  IN [i \in 1..Len(kept) |-> kept[i][1]]

\* an end of loadOverlay that leaves the loading flag set
overlayDone_busy(s, ld) == [s EXCEPT !.overlayLoads = s.overlayLoads \ {ld}]

\* the end of loadOverlay: the loop is over or a base has answered
overlayDone(s, ld) ==
  [s EXCEPT !.overlayLoads = s.overlayLoads \ {ld}, !.overlayLoading[ld.key] = FALSE]

\* a loop that asks the failed base again
overlaySettled_retry(s, ld, outcome) ==
  IF outcome = "fail" /\ ~ld.aborted THEN s
  ELSE overlayDone([s EXCEPT !.overlaySrc[ld.key] = overlayAnswer(ld)], ld)

\* loadOverlay after an await.  An aborted load gets AbortError from the pending and
\* from every later fetch, so its loop runs to the end without a write.
overlaySettledWith(s, ld, outcome, feats) ==
  IF ld.aborted THEN overlayDone(s, ld)
  ELSE IF outcome = "ok"
    THEN overlayDone([s EXCEPT !.overlaySrc[ld.key] =
                                 IF SourcesExist(s) THEN feats
                                 ELSE s.overlaySrc[ld.key]], ld)
  ELSE IF ld.i < Len(ld.bases)
    THEN [s EXCEPT !.overlayLoads = (s.overlayLoads \ {ld}) \cup {[ld EXCEPT !.i = ld.i + 1]}]
  ELSE overlayDone(s, ld)

\* with the answer's features named by the load and the base that gave them
overlaySettled(s, ld, outcome) == overlaySettledWith(s, ld, outcome, overlayAnswer(ld))


----------------------------------------------------------------------------
(* Valhalla shapes: decodeValhallaShape (lines 341-353) and the leg loop of
   computeRoadRoute (lines 319-327).  A shape is the sequence of its character
   codes.  A coordinate is kept as its pair of integers [lon, lat] in units of
   `factor` = 1e-6 degrees.  With at most MaxShape characters in a shape, shift
   stays below 5 * MaxShape and no bit leaves the 32-bit word of the JavaScript
   bit operators. *)

\* no answer is being decoded
NoCall ==
  [legs |-> <<>>, leg |-> 0, shape |-> <<>>, index |-> 0, result |-> 0, shift |-> 0,
   lat |-> 0, lon |-> 0, coordinates |-> <<>>, coords |-> <<>>, pc |-> "idle"]

\* a | b for non-negative a and b
RECURSIVE BitOr(_, _)
BitOr(a, b) ==
  IF a = 0 THEN b
  ELSE IF b = 0 THEN a
  ELSE 2 * BitOr(a \div 2, b \div 2) + (IF a % 2 = 1 \/ b % 2 = 1 THEN 1 ELSE 0)

\* a decoding without the sign bit
ZigZag_unsigned(result) == result \div 2

\* (result & 1) ? ~(result >> 1) : (result >> 1)
ZigZag(result) == IF result % 2 = 1 THEN -(result \div 2) - 1 ELSE result \div 2

\* let index = 0, lat = 0, lon = 0; coordinates = []; and the first test of the while
decodeStart(d, shape) ==
  [d EXCEPT !.shape = shape, !.index = 0, !.result = 0, !.shift = 0, !.lat = 0, !.lon = 0,
            !.coordinates = <<>>, !.pc = IF 0 < Len(shape) THEN "lat" ELSE "return"]

\* One iteration of a do-while (line 346 for the latitude, line 348 for the longitude)
\* with what follows it when the iteration is the last one of its loop; next is the
\* index that index++ leaves.  charCodeAt gives NaN past the end of the string:
\* NaN & 0x1f is 0, NaN >= 0x20 is false.
decodeChunk(d, next) ==
  LET nan == d.index >= Len(d.shape)
      b == IF nan THEN 0 ELSE d.shape[d.index + 1] - 63
      result == BitOr(d.result, (IF nan THEN 0 ELSE b % 32) * 2 ^ d.shift)
      a == [d EXCEPT !.index = next]
  IN IF ~nan /\ b >= 32 THEN [a EXCEPT !.result = result, !.shift = d.shift + 5]
     ELSE IF d.pc = "lat"
       THEN [a EXCEPT !.lat = d.lat + ZigZag(result), !.result = 0, !.shift = 0, !.pc = "lon"]
     ELSE LET lon == d.lon + ZigZag(result) IN
          [a EXCEPT !.lon = lon, !.result = 0, !.shift = 0,
                    !.coordinates = Append(d.coordinates, <<lon, d.lat>>),
                    !.pc = IF a.index < Len(d.shape) THEN "lat" ELSE "return"]

\* an iteration that reads its character without moving on
decodeStep_reread(d) == decodeChunk(d, d.index)

\* b = shape.charCodeAt(index++) - 63; ...
decodeStep(d) == decodeChunk(d, d.index + 1)

\* for (const leg of trip.legs): the call for the first leg, or the end without legs
legsStart(legs) ==
  LET d == [NoCall EXCEPT !.legs = legs] IN
  IF Len(legs) = 0 THEN [d EXCEPT !.pc = "done"]
  ELSE decodeStart([d EXCEPT !.leg = 1], legs[1])

\* return coordinates; coords.push(...legCoords); and the next leg's call
legReturn(d) ==
  LET a == [d EXCEPT !.coords = d.coords \o d.coordinates] IN
  IF d.leg < Len(d.legs) THEN decodeStart([a EXCEPT !.leg = d.leg + 1], d.legs[d.leg + 1])
  ELSE [a EXCEPT !.pc = "done"]

----------------------------------------------------------------------------
(* Initial state: the first render and the mount effects, before the map exists.
   st is what localStorage holds when the page is opened, uid the number of uid()
   values already used (uid() is made from the clock and never repeats). *)

InitialLang == "de"                          \* useState<Lang>("de")

Ev(op, arg) == [op |-> op, arg |-> arg]

InitState(st, uid) ==
  [alive |-> TRUE, mapState |-> "none", zoomedIn |-> FALSE, mapLang |-> "",
   status |-> "loading", lang |-> InitialLang, query |-> "", suggestions |-> Empty,
   showSuggestions |-> FALSE, searchTimerRef |-> 0, timers |-> {}, searchAbortRef |-> 0,
   searchFetches |-> {}, waypoints |-> Empty, savedRoutes |-> Empty, insertAfter |-> None,
   roadGeom |-> None, roadDistanceKm |-> None, roadDurationMin |-> None,
   routingBusy |-> FALSE, routeFetches |-> {}, routesSrc |-> Empty, roadSrc |-> Empty,
   overlays |-> NoFlags, overlayAbort |-> [k \in OverlayKeys |-> 0],
   overlayLoading |-> NoFlags, overlaySrc |-> [k \in OverlayKeys |-> Empty],
   overlayLoads |-> {}, favoritesRef |-> Empty, favoritesSrc |-> Empty,
   config |-> IF st.config # None THEN st.config[1] ELSE DEFAULT_CONFIG,
   basesShared |-> (st.config = None), storage |-> st, uidCount |-> uid,
   timerCount |-> 0, searchCount |-> 0, routeCount |-> 0, loadCount |-> 0,
   decoder |-> NoCall, lastSelectedRef |-> None, camera |-> NoCamera,
   userMarkersRef |-> Empty, userMarkersSrc |-> Empty,
   suggestionsFrom |-> 0, event |-> Ev("mount", <<>>),
   thrown |-> FALSE]

InitWith(st) == Holds(InitState(st, 0))

EmptyStorage == [favorites |-> None, saved |-> None, current |-> None, config |-> None]

----------------------------------------------------------------------------
(* Map life cycle (mount effect, lines 91-128) *)

\* ensureMapLibreLoaded resolved and new Map(...) returned: mapRef.current = map
MapCreate ==
  /\ alive /\ mapState = "none"
  /\ Do([S EXCEPT !.mapState = "created"], Ev("MapCreate", <<>>))

\* ensureMapLibreLoaded rejected: the catch of the mount effect sets the status
MapScriptFail ==
  /\ alive /\ mapState = "none"
  /\ Do([S EXCEPT !.mapState = "failed", !.status = "loadfail"], Ev("MapScriptFail", <<>>))

\* the "load" handler with the effects of the state it restores.  applyLanguageOnMap
\* gets the lang of the first render, which the mount effect closed over.
MapLoad ==
  /\ alive /\ mapState = "created"
  /\ LET a == [S EXCEPT !.mapState = "loaded", !.mapLang = InitialLang]
         b == [restoreFromStorage(a) EXCEPT !.status = ""]
         c == IF b.config.geocoderBase # config.geocoderBase THEN searchEffect(b) ELSE b
         d == routeEffect(c)
         e == IF storage.config # None THEN overlayEffect(d) ELSE d
     IN Do(e, Ev("MapLoad", <<>>))

\* map.on("error", ...)
MapError ==
  /\ alive /\ mapState \in {"created", "loaded"}
  /\ Do([S EXCEPT !.status = "error"], Ev("MapError", <<>>))

\* map.on("moveend", () => reloadActiveOverlays()): the handler of the first render,
\* whose overlays are all off; z is whether the move ended at zoom >= 4
MoveEnd ==
  \E z \in BOOLEAN :
    /\ alive /\ mapState \in {"created", "loaded"}
    /\ Do(reloadActiveOverlays([S EXCEPT !.zoomedIn = z], NoFlags), Ev("MoveEnd", <<z>>))

\* the page is opened again: a new component over the same localStorage
Reload ==
  /\ Do(InitState(storage, uidCount), Ev("mount", <<>>))

----------------------------------------------------------------------------
(* Search box *)

\* <input onChange={(e) => setQuery(e.target.value)}>
SetQuery ==
  \E q \in Queries :
    /\ alive /\ q # query
    /\ Do(searchEffect([S EXCEPT !.query = q]), Ev("SetQuery", <<q>>))

\* clearSearch, the button shown while query is non-empty
ClearSearch ==
  /\ alive /\ query # ""
  /\ Do(searchEffect([S EXCEPT !.query = "", !.suggestions = Empty,
                               !.showSuggestions = FALSE, !.suggestionsFrom = 0]),
        Ev("ClearSearch", <<>>))

\* the language select; effect [lang] applies the language on a map whose style has
\* loaded, and the search effect has lang among its dependencies
SetLang ==
  \E l \in SUPPORTED_LANGS :
    /\ alive /\ l # lang
    /\ Do(searchEffect([S EXCEPT !.lang = l,
                                 !.mapLang = IF mapState = "loaded" THEN l ELSE mapLang]),
          Ev("SetLang", <<l>>))

\* the setTimeout callback: runSearch(query) of the render that set the timer
TimerFire ==
  \E t \in timers :
    /\ alive
    /\ Do(runSearch([S EXCEPT !.timers = timers \ {t}], t.q, t.lang, t.base),
          Ev("TimerFire", <<t.id>>))

\* the awaited fetch / res.json() of runSearch settles; boxes are the
\* bbox members its features can carry
SearchSettleWith(boxes) ==
  \E f \in searchFetches :
    /\ alive
    /\ \/ /\ f.aborted
          /\ Do(searchSettled(S, f, "abort", Empty), Ev("SearchSettle", <<f.id, "abort">>))
       \/ /\ ~f.aborted
          /\ \E r \in BoxedResults(f.q, f.lang, f.base, boxes) :
               Do(searchSettled(S, f, "ok", r), Ev("SearchSettle", <<f.id, "ok">>))
       \/ /\ ~f.aborted
          /\ Do(searchSettled(S, f, "fail", Empty), Ev("SearchSettle", <<f.id, "fail">>))

\* with a geocoder whose features carry no bbox member (only flyToSuggestion reads it)
SearchSettle == SearchSettleWith({None})

\* with a geocoder whose features may carry a bbox member
SearchSettleBoxed == SearchSettleWith(Boxes)

\* "Marker löschen"; an exception ends the click handler
ClearUserMarkers ==
  /\ alive
  /\ Do(clearUserMarkers(S), Ev("ClearUserMarkers", <<>>))

\* "Anzeigen" on a suggestion of the open list; an exception ends the click handler
FlyToSuggestion ==
  \E i \in 1..Len(suggestions) :
    /\ alive /\ showSuggestions
    /\ Do(flyToSuggestion(S, suggestions[i]), Ev("FlyToSuggestion", <<i>>))

\* "Zur Route" on a suggestion of the open list
AddSuggestionToRoute ==
  \E i \in 1..Len(suggestions) :
    /\ alive /\ showSuggestions
    /\ Do(routeEffect(addWaypointAt(S, suggestions[i].center, suggestions[i].name, insertAfter)),
          Ev("AddSuggestionToRoute", <<i>>))

\* "Favorit" on a suggestion of the open list; an exception ends the click handler
AddSuggestionToFavorites ==
  \E i \in 1..Len(suggestions) :
    /\ alive /\ showSuggestions
    /\ Do(addSuggestionToFavorites(S, suggestions[i]), Ev("AddSuggestionToFavorites", <<i>>))


----------------------------------------------------------------------------
(* Route planner *)

WaypointIds == {waypoints[i].id : i \in 1..Len(waypoints)}
SavedIds == {savedRoutes[i].id : i \in 1..Len(savedRoutes)}

\* "Punkt: Kartenmitte": map.getCenter() of the map wherever it has been moved to
AddMapCenter ==
  \E c \in Places :
    /\ alive /\ mapState \in {"created", "loaded"}
    /\ Do(routeEffect(addWaypointAt(S, c, "Kartenmitte", None)), Ev("AddMapCenter", c))

\* "hier" on the waypoint row at position i
SetInsertAfter ==
  \E i \in 0..(Len(waypoints) - 1) :
    /\ alive
    /\ Do([S EXCEPT !.insertAfter = Some(i)], Ev("SetInsertAfter", <<i>>))

\* the remove button of a waypoint row
RemoveWaypoint ==
  \E id \in WaypointIds :
    /\ alive
    /\ Do(routeEffect(removeWaypoint(S, id)), Ev("RemoveWaypoint", <<id>>))

\* the up / down button of a waypoint row; the effect runs only for a new array
MoveWaypoint ==
  \E id \in WaypointIds, dir \in {-1, 1} :
    /\ alive
    /\ Do(IF moveApplies(waypoints, id, dir) THEN routeEffect(moveWaypoint(S, id, dir)) ELSE S,
          Ev("MoveWaypoint", <<id, dir>>))

\* "Leeren"
ClearRoute ==
  /\ alive
  /\ Do(routeEffect(clearRoute(S)), Ev("ClearRoute", <<>>))

\* "Speichern" in the route planner
SaveCurrentRoute ==
  /\ alive
  /\ Do(saveCurrentRoute(S, "Meine Route"), Ev("SaveCurrentRoute", <<>>))

\* "Laden" on a saved route
LoadRoute ==
  \E id \in SavedIds :
    /\ alive
    /\ Do(IF loadApplies(S, id) THEN routeEffect(loadRoute(S, id)) ELSE S,
          Ev("LoadRoute", <<id>>))

\* "Entfernen" on a saved route
DeleteRoute ==
  \E id \in SavedIds :
    /\ alive
    /\ Do(deleteRoute(S, id), Ev("DeleteRoute", <<id>>))

\* the awaited fetch / res.json() of computeRoadRoute settles
RouteSettle ==
  \E f \in routeFetches, outcome \in {"ok", "empty", "fail"} :
    /\ alive
    /\ Do(routeSettled(S, f, outcome), Ev("RouteSettle", <<f.id, outcome>>))

----------------------------------------------------------------------------
(* Overlay legend *)

\* a legend checkbox: setOverlays(prev => ({...prev, [k]: checked})) and its effect
ToggleOverlay ==
  \E k \in OverlayKeys :
    /\ alive
    /\ Do(overlayEffect([S EXCEPT !.overlays[k] = ~overlays[k]]), Ev("ToggleOverlay", <<k>>))

\* an awaited fetch / res.json() of a loadOverlay settles
OverlaySettle ==
  \E ld \in overlayLoads, outcome \in {"ok", "fail"} :
    /\ alive
    /\ Do(overlaySettled(S, ld, outcome), Ev("OverlaySettle", <<ld.id, outcome>>))

\* coordinate members of an Overpass element: absent, 0, or another number
Members == {"undefined", "0", "5"}

\* the elements an Overpass answer can hold: nodes with lon / lat, ways and relations
\* with or without a center
Elements ==
  {[type |-> "node", tags |-> tg, lon |-> x, lat |-> y, center |-> None] :
     tg \in {<<>>, [name |-> "n"]}, x \in Members, y \in Members}
  \cup {[type |-> ty, tags |-> <<>>, lon |-> "undefined", lat |-> "undefined", center |-> c] :
          ty \in {"way", "relation"},
          c \in {None} \cup {Some([lon |-> x, lat |-> y]) : x \in Members, y \in Members}}

\* a base answers a load that was not aborted with one element
OverlaySettleElements ==
  /\ alive
  /\ \E ld \in overlayLoads :
       /\ ~ld.aborted
       /\ \E el \in Elements :
            Do(overlaySettledWith(S, ld, "ok", elementFeatures(<<el>>, lang)),
               Ev("OverlaySettleElements", <<ld.key, el>>))

----------------------------------------------------------------------------
(* Settings dialog and engine select: every field edits the config in UI state *)

SetGeocoderBase ==
  \E g \in GeocoderBases :
    /\ alive /\ g # config.geocoderBase
    /\ Do(searchEffect([S EXCEPT !.config.geocoderBase = g]), Ev("SetGeocoderBase", <<g>>))

\* the textarea builds a new array on every change
SetOverpassBases ==
  \E bs \in OverpassBaseLists :
    /\ alive /\ bs # config.overpassBases
    /\ Do(overlayEffect([S EXCEPT !.config.overpassBases = bs, !.basesShared = FALSE]),
          Ev("SetOverpassBases", bs))

\* an engine select that also writes the config to storage
SetRoutingEngine_persisting ==
  \E e \in Engines :
    /\ alive /\ e # config.routingEngine
    /\ Do(routeEffect([S EXCEPT !.config.routingEngine = e,
                                !.storage.config = Some([config EXCEPT !.routingEngine = e])]),
          Ev("SetRoutingEngine", <<e>>))

\* the engine select of the route planner
SetRoutingEngine ==
  \E e \in Engines :
    /\ alive /\ e # config.routingEngine
    /\ Do(routeEffect([S EXCEPT !.config.routingEngine = e]), Ev("SetRoutingEngine", <<e>>))

SetOsrmBase ==
  \E b \in OsrmBases :
    /\ alive /\ b # config.osrmBase
    /\ Do(routeEffect([S EXCEPT !.config.osrmBase = b]), Ev("SetOsrmBase", <<b>>))

SetValhallaBase ==
  \E b \in ValhallaBases :
    /\ alive /\ b # config.valhallaBase
    /\ Do(routeEffect([S EXCEPT !.config.valhallaBase = b]), Ev("SetValhallaBase", <<b>>))

\* "Zuruecksetzen": setConfig(DEFAULT_CONFIG); the effects whose dependencies changed run
ResetConfig ==
  /\ alive
  /\ LET a == [S EXCEPT !.config = DEFAULT_CONFIG, !.basesShared = TRUE]
         b == IF DEFAULT_CONFIG.geocoderBase # config.geocoderBase THEN searchEffect(a) ELSE a
         c == IF \/ DEFAULT_CONFIG.routingEngine # config.routingEngine
                 \/ DEFAULT_CONFIG.osrmBase # config.osrmBase
                 \/ DEFAULT_CONFIG.valhallaBase # config.valhallaBase
                THEN routeEffect(b) ELSE b
         d == IF c.alive /\ ~basesShared THEN overlayEffect(c) ELSE c
     IN Do(d, Ev("ResetConfig", <<>>))

\* localStorage.setItem("worldmap.config", JSON.stringify(config))
persistConfig(s) == [s EXCEPT !.storage.config = Some(s.config)]

\* "Speichern" in the settings dialog:
\* persistConfig(); setConfigOpen(false); reloadActiveOverlays(); computeRoadRoute()
SaveConfig ==
  /\ alive
  /\ Do(computeRoadRoute(reloadActiveOverlays(persistConfig(S), overlays)),
        Ev("SaveConfig", <<>>))

----------------------------------------------------------------------------
(* Specifications *)

\* the search box alone
InitSearch == InitWith(EmptyStorage)

NextSearch ==
  \/ ClearSearch
  \/ SetQuery
  \/ SetLang
  \/ SetGeocoderBase
  \/ TimerFire
  \/ SearchSettle

SpecSearch == InitSearch /\ [][NextSearch]_vars

\* the language select with the map life cycle and the searches a change of language
\* starts
InitLang == InitWith(EmptyStorage)

NextLang ==
  \/ MapCreate
  \/ MapLoad
  \/ SetLang
  \/ SetQuery
  \/ TimerFire

SpecLang == InitLang /\ [][NextLang]_vars

\* the search box with a geocoder that sends bbox members, and the "Anzeigen" button
InitFly == InitWith(EmptyStorage)

NextFly ==
  \/ MapCreate
  \/ MapLoad
  \/ SetQuery
  \/ TimerFire
  \/ SearchSettleBoxed
  \/ FlyToSuggestion

SpecFly == InitFly /\ [][NextFly]_vars


\* a route of two waypoints that an earlier session left in localStorage
StoredRoute ==
  <<[id |-> 8, name |-> "a", coord |-> <<"1", "2">>],
    [id |-> 9, name |-> "b", coord |-> <<"3", "4">>]>>

\* the route planner with the map life cycle
InitRoute ==
  \E st \in {EmptyStorage, [EmptyStorage EXCEPT !.current = Some(StoredRoute)]} : InitWith(st)

NextRoute ==
  \/ MapCreate
  \/ MapLoad
  \/ AddMapCenter
  \/ RemoveWaypoint
  \/ MoveWaypoint
  \/ ClearRoute
  \/ SetRoutingEngine
  \/ RouteSettle

SpecRoute == InitRoute /\ [][NextRoute]_vars

\* the state after mount once a search for "a" has been typed, sent and answered
\* with one result at c
Searched(st, c) ==
  [InitState(st, 0) EXCEPT !.query = "a", !.searchTimerRef = 1, !.timerCount = 1,
                           !.searchAbortRef = 1, !.searchCount = 1,
                           !.suggestions = <<Suggestion("a", InitialLang, DEFAULT_CONFIG.geocoderBase, c)>>,
                           !.showSuggestions = TRUE, !.suggestionsFrom = 1,
                           !.event = Ev("SearchSettle", <<1, "ok">>)]

\* the route planner fed from the open suggestion list and the map centre, with the
\* insertion point
InitInsert ==
  \E st \in {EmptyStorage, [EmptyStorage EXCEPT !.current = Some(StoredRoute)]} :
    \E c \in Places : Holds(Searched(st, c))

NextInsert ==
  \/ MapCreate
  \/ MapLoad
  \/ AddSuggestionToRoute
  \/ AddMapCenter
  \/ SetInsertAfter
  \/ RemoveWaypoint
  \/ MoveWaypoint

SpecInsert == InitInsert /\ [][NextInsert]_vars

\* the buttons that work on the map's sources, pressed around the load event, from
\* the state with an open suggestion list
NextEarly ==
  \/ MapCreate
  \/ MapLoad
  \/ FlyToSuggestion
  \/ ClearUserMarkers
  \/ AddSuggestionToFavorites
  \/ AddSuggestionToRoute
  \/ AddMapCenter
  \/ ClearRoute

SpecEarly == InitInsert /\ [][NextEarly]_vars

\* the overlay legend with the map life cycle
InitOverlay == InitWith(EmptyStorage)

NextOverlay ==
  \/ MapCreate
  \/ MapLoad
  \/ MoveEnd
  \/ ToggleOverlay
  \/ OverlaySettle
  \/ Reload

SpecOverlay == InitOverlay /\ [][NextOverlay]_vars

\* the overlay legend with the elements of the Overpass answers
NextElements ==
  \/ MapCreate
  \/ MapLoad
  \/ MoveEnd
  \/ ToggleOverlay
  \/ OverlaySettleElements

SpecElements == InitOverlay /\ [][NextElements]_vars

\* a saved route that an earlier session left in localStorage
StoredSaved == <<[id |-> 7, name |-> "Meine Route", waypoints |-> StoredRoute]>>

\* saved routes
InitSaved ==
  \E st \in {EmptyStorage, [EmptyStorage EXCEPT !.saved = Some(StoredSaved)]} : InitWith(st)

NextSaved ==
  \/ MapCreate
  \/ MapLoad
  \/ AddMapCenter
  \/ SaveCurrentRoute
  \/ LoadRoute
  \/ DeleteRoute
  \/ Reload

SpecSaved == InitSaved /\ [][NextSaved]_vars

\* saving and loading routes between edits of the current route
InitSnapshot ==
  \E st \in {EmptyStorage,
              [EmptyStorage EXCEPT !.saved = Some(StoredSaved), !.current = Some(StoredRoute)]} :
    InitWith(st)

NextSnapshot ==
  \/ MapCreate
  \/ MapLoad
  \/ AddMapCenter
  \/ RemoveWaypoint
  \/ MoveWaypoint
  \/ ClearRoute
  \/ SaveCurrentRoute
  \/ LoadRoute

SpecSnapshot == InitSnapshot /\ [][NextSnapshot]_vars

\* favorites added from search results
InitFav == InitWith(EmptyStorage)

NextFav ==
  \/ MapCreate
  \/ MapLoad
  \/ SetQuery
  \/ TimerFire
  \/ SearchSettle
  \/ AddSuggestionToFavorites
  \/ Reload

SpecFav == InitFav /\ [][NextFav]_vars

\* the settings
InitConfig ==
  \E st \in {EmptyStorage, [EmptyStorage EXCEPT !.current = Some(StoredRoute)]} : InitWith(st)

NextConfig ==
  \/ MapCreate
  \/ MapLoad
  \/ SetQuery
  \/ SetGeocoderBase
  \/ SetOverpassBases
  \/ SetRoutingEngine
  \/ ResetConfig
  \/ SaveConfig
  \/ Reload

SpecConfig == InitConfig /\ [][NextConfig]_vars

\* a configuration saved by an earlier session whose Overpass list names one base twice
StoredConfig == [DEFAULT_CONFIG EXCEPT !.overpassBases = <<"o1", "o1">>]

\* Every kind of request.  The three kinds share no state, so they are followed in
\* two kinds of session: searches and the route computation of a stored route in a
\* session that found no stored configuration, overlay loads in a session that found
\* one (the default configuration or StoredConfig).
InitRequests ==
  \E st \in {[EmptyStorage EXCEPT !.current = Some(StoredRoute)],
              [EmptyStorage EXCEPT !.config = Some(DEFAULT_CONFIG)],
              [EmptyStorage EXCEPT !.config = Some(StoredConfig)]} : InitWith(st)

NextRequests ==
  \/ MapCreate
  \/ MapLoad
  \/ storage.config = None /\ SetQuery
  \/ storage.config = None /\ TimerFire
  \/ storage.config = None /\ SearchSettle
  \/ storage.config = None /\ RouteSettle
  \/ storage.config # None /\ MoveEnd
  \/ storage.config # None /\ ToggleOverlay
  \/ storage.config # None /\ OverlaySettle

SpecRequests == InitRequests /\ [][NextRequests]_vars

\* The status overlay over the map life cycle and the legend, in one mounted
\* component (no reload).  Fairness: the script load ends (in success or failure),
\* the style load ends in the load event, and every pending Overpass request settles.
InitStatus == InitWith(EmptyStorage)

NextStatus ==
  \/ MapCreate
  \/ MapScriptFail
  \/ MapLoad
  \/ MapError
  \/ MoveEnd
  \/ ToggleOverlay
  \/ OverlaySettle

SpecStatus ==
  /\ InitStatus /\ [][NextStatus]_vars
  /\ WF_vars(MapCreate \/ MapScriptFail) /\ WF_vars(MapLoad) /\ WF_vars(OverlaySettle)

\* a route in localStorage whose second waypoint has no numbers as its coordinate:
\* JSON.stringify writes [null, null] for a coordinate of undefined or NaN entries,
\* and any other writer of the key can leave such a value
StoredNullRoute ==
  <<[id |-> 8, name |-> "a", coord |-> <<"1", "2">>],
    [id |-> 9, name |-> "b", coord |-> <<"null", "null">>]>>

\* the coordinates the page holds, over sessions that find any of three stored routes
InitCoords ==
  \E st \in {EmptyStorage, [EmptyStorage EXCEPT !.current = Some(StoredRoute)],
              [EmptyStorage EXCEPT !.current = Some(StoredNullRoute)]} : InitWith(st)

NextCoords ==
  \/ MapCreate
  \/ MapLoad
  \/ AddMapCenter
  \/ RemoveWaypoint
  \/ SaveCurrentRoute
  \/ LoadRoute
  \/ Reload

SpecCoords == InitCoords /\ [][NextCoords]_vars

\* the characters of the shapes: ">" (below the range of the encoding), "@", "A",
\* and "`" (a chunk that announces another one)
ShapeChars == {62, 64, 65, 96}

Shapes == UNION {[1..n -> ShapeChars] : n \in 0..MaxShape}

\* shape cut into legs after the positions in cuts
RECURSIVE Legs(_, _, _)
Legs(shape, cuts, from) ==
  IF \A c \in cuts : c < from THEN <<SubSeq(shape, from + 1, Len(shape))>>
  ELSE LET c == CHOOSE x \in cuts : x >= from /\ \A y \in cuts : y >= from => x <= y
       IN <<SubSeq(shape, from + 1, c)>> \o Legs(shape, cuts \ {c}, c)

\* A Valhalla answer arrives: json.trip.legs holds up to MaxLegs shapes, any strings.
\* One answer is followed per run; the decoding of an answer starts from NoCall and
\* keeps nothing of an earlier one.
ValhallaAnswer ==
  /\ alive /\ decoder.pc = "idle"
  /\ \E shape \in Shapes :
       \E cuts \in {c \in SUBSET (0..Len(shape)) : Cardinality(c) < MaxLegs} :
         Apply([S EXCEPT !.decoder = legsStart(Legs(shape, cuts, 0))])

\* one iteration of a do-while of decodeValhallaShape
DecodeStep ==
  /\ alive /\ decoder.pc \in {"lat", "lon"}
  /\ Apply([S EXCEPT !.decoder = decodeStep(decoder)])

\* decodeValhallaShape returns to the leg loop
LegReturn ==
  /\ alive /\ decoder.pc = "return"
  /\ Apply([S EXCEPT !.decoder = legReturn(decoder)])

\* the decoding of Valhalla answers
InitDecode == InitWith(EmptyStorage)

NextDecode ==
  \/ ValhallaAnswer
  \/ DecodeStep
  \/ LegReturn

SpecDecode == InitDecode /\ [][NextDecode]_vars

----------------------------------------------------------------------------
(* Claims about the search box, checked under SpecSearch *)

\* C1: search requests are debounced: every change of the query (also to an
\* empty query), of the language or of the geocoder base cancels the search
\* waiting in the timer, at most one search is pending, and a request is only
\* sent for the query text that is current when the timer fires.
C1_Debounced ==
  [][ /\ (query' # query \/ lang' # lang \/ config'.geocoderBase # config.geocoderBase)
           => timers' \cap timers = {}
      /\ Cardinality(timers') <= 1
      /\ \A f \in searchFetches' : f.id > searchCount => f.q = query' ]_vars

\* C2 as stated: in every reachable state, suggestions that were set by a
\* response come from the most recently started search.
C2_FromLatestSearch ==
  suggestionsFrom # 0 => suggestionsFrom = searchAbortRef

\* C2 as amended: runSearch aborts the previous in-flight search, so only the
\* most recently started search is not aborted, and whenever a completion sets
\* the suggestions it is the completion of the search that is the most
\* recently started one at that moment.
C2_OnlyLatestSearchWrites ==
  [][ /\ (suggestionsFrom' # suggestionsFrom /\ suggestionsFrom' # 0)
           => suggestionsFrom' = searchAbortRef
      /\ \A f \in searchFetches' : ~f.aborted => f.id = searchAbortRef' ]_vars

\* the newer search has answered while the aborted older one is still pending
C2_Witness ==
  /\ suggestionsFrom = 2 /\ Len(suggestions) > 0
  /\ \E f \in searchFetches : f.id = 1 /\ f.aborted


----------------------------------------------------------------------------
(* Claims about the route planner, checked under SpecRoute *)

WaypointOps ==
  {"AddMapCenter", "AddSuggestionToRoute", "RemoveWaypoint", "MoveWaypoint", "ClearRoute",
   "LoadRoute"}

\* C3: in-flight road-routing calls are cancellable: a request superseded by a
\* later change of the waypoint list or of the engine never writes its result
\* (what a completion writes is the route of the current list and engine), and
\* once all requests have settled the geometry, distance and duration are null
\* and the road source is empty whenever the list has fewer than two waypoints.
C3_RoutingCancellable ==
  [][ /\ (event'.op = "RouteSettle" /\ event'.arg[2] = "ok")
           => /\ roadGeom' # None
              /\ roadGeom'[1].coords = coordsOf(waypoints')
              /\ roadGeom'[1].engine = config'.routingEngine
      /\ (alive' /\ mapState' = "loaded" /\ routeFetches' = {} /\ Len(waypoints') < 2)
           => /\ roadGeom' = None /\ roadDistanceKm' = None /\ roadDurationMin' = None
              /\ roadSrc' = Empty ]_vars

\* C5: the current route is mirrored to local storage: after every change of
\* the waypoint list (add, remove, move, clear, load) has been processed, the
\* value stored under worldmap.routes.current equals the waypoint list.
C5_CurrentRouteMirrored ==
  [][ (alive' /\ event'.op \in WaypointOps)
        => storage'.current = Some(jsonWaypoints(waypoints')) ]_vars

\* C10: a road-routing request that fails is swallowed: nothing escapes
\* computeRoadRoute, the waypoint list and the road geometry, distance and
\* duration keep their values, and the busy flag is reset.
C10_RouteFailureSwallowed ==
  [][ (event'.op = "RouteSettle" /\ event'.arg[2] = "fail")
        => /\ alive' = alive /\ waypoints' = waypoints /\ roadGeom' = roadGeom
           /\ roadDistanceKm' = roadDistanceKm /\ roadDurationMin' = roadDurationMin
           /\ roadSrc' = roadSrc /\ ~routingBusy' ]_vars

\* a request has failed while an earlier route is on display
C10_Witness ==
  /\ event.op = "RouteSettle" /\ event.arg[2] = "fail"
  /\ roadGeom # None /\ Len(waypoints) >= 2 /\ ~routingBusy


----------------------------------------------------------------------------
(* Claims about the overlays, checked under SpecOverlay *)

\* C4: for each overlay key at most one non-aborted Overpass load is in
\* flight, namely the one overlayAbort holds for that key; loadOverlay and
\* clearOverlay abort the previous load of the same key and only of that key
\* (the load a key currently holds is never aborted); and an aborted load never
\* writes: data is written to an overlay only by the load the key holds at that
\* moment, so no older response repopulates a cleared or reloaded overlay.
C4_OneLoadPerKey ==
  [][ \A k \in OverlayKeys :
        /\ \A ld \in overlayLoads' :
             ld.key = k => (ld.aborted <=> ld.id # overlayAbort'[k])
        /\ Cardinality({ld \in overlayLoads' : ld.key = k /\ ~ld.aborted}) <= 1
        /\ (overlaySrc'[k] # overlaySrc[k] /\ overlaySrc'[k] # Empty)
             => /\ overlaySrc'[k][1].load = overlayAbort[k]
                /\ \E ld \in overlayLoads : ld.id = overlayAbort[k] /\ ~ld.aborted ]_vars

\* the newer load of a key has written its data while the load it replaced,
\* aborted, has not returned yet
C4_Witness ==
  \E k \in OverlayKeys :
    /\ overlaySrc[k] # Empty
    /\ \E ld \in overlayLoads : ld.key = k /\ ld.aborted /\ ld.id < overlaySrc[k][1].load

\* C8 as stated: the overlay toggle flags are mirrored to local storage: after
\* an overlay is switched on or off storage holds the current flag set, so the
\* toggle, which changes the flag set, changes what storage holds.
C8_FlagsMirrored ==
  [][ event'.op = "ToggleOverlay" => storage' # storage ]_vars

\* C8 as amended: the overlay toggle flags are held in UI state only:
\* switching an overlay on or off flips that flag and leaves local storage
\* unchanged, the load handler of the map restores nothing into the flags, and
\* a newly opened page starts with all flags off.
C8_FlagsInMemoryOnly ==
  [][ /\ event'.op = "ToggleOverlay"
           => /\ storage' = storage
              /\ overlays' = [overlays EXCEPT ![event'.arg[1]] = ~overlays[event'.arg[1]]]
      /\ event'.op = "MapLoad" => overlays' = overlays
      /\ event'.op = "mount" => overlays' = NoFlags ]_vars

\* the map has loaded after an overlay was switched on, and the flag is still on
C8_Witness ==
  /\ event.op = "MapLoad" /\ overlays # NoFlags
  /\ storage.favorites = None /\ storage.saved = None /\ storage.config = None

----------------------------------------------------------------------------
(* Claims about saved routes (SpecSaved), favorites (SpecFav), settings (SpecConfig) *)

RECURSIVE Without(_, _)
Without(rs, id) ==
  IF rs = <<>> THEN <<>>
  ELSE IF Head(rs).id = id THEN Without(Tail(rs), id)
  ELSE <<Head(rs)>> \o Without(Tail(rs), id)

C7_FavoritesMirrored ==
  [][ /\ (event'.op = "AddSuggestionToFavorites" /\ favoritesRef' # favoritesRef)
           => storage'.favorites = Some(favoritesRef')
      /\ event'.op = "MapLoad"
           => \A i \in 1..Len(favoritesRef) :
                \E j \in 1..Len(favoritesRef') : favoritesRef'[j] = favoritesRef[i] ]_vars

ConfigEditOps == {"SetGeocoderBase", "SetOverpassBases", "SetRoutingEngine", "SetOsrmBase",
                  "SetValhallaBase", "ResetConfig"}

\* C9: the configuration stored under worldmap.config changes only when Save
\* is pressed in the settings dialog, and then to the configuration in UI
\* state; editing an endpoint field, switching the routing engine or resetting
\* to defaults changes the configuration in UI state only, and re-triggers the
\* search (a new debounce timer for a non-blank query when the geocoder base
\* changed) and the routing (a new request for two or more waypoints on a
\* loaded map when the engine changed).
C9_ConfigStoredOnSave ==
  [][ /\ storage'.config # storage.config
           => event'.op = "SaveConfig" /\ storage'.config = Some(config)
      /\ event'.op \in ConfigEditOps => storage' = storage
      /\ event'.op = "ResetConfig" => config' = DEFAULT_CONFIG
      /\ event'.op = "SetGeocoderBase"
           => /\ config' = [config EXCEPT !.geocoderBase = event'.arg[1]]
              /\ ~Blank(query) => \E t \in timers' :
                                    t.id > timerCount /\ t.base = config'.geocoderBase
      /\ event'.op = "SetRoutingEngine"
           => /\ config' = [config EXCEPT !.routingEngine = event'.arg[1]]
              /\ (mapState = "loaded" /\ Len(waypoints) >= 2)
                   => \E f \in routeFetches' :
                        f.id > routeCount /\ f.engine = config'.routingEngine ]_vars

\* the engine was switched on a loaded map with a route while storage holds a
\* saved configuration with the other engine
C9_Witness ==
  /\ event.op = "SetRoutingEngine" /\ mapState = "loaded" /\ Len(waypoints) >= 2
  /\ storage.config # None /\ storage.config[1].routingEngine # config.routingEngine


----------------------------------------------------------------------------
(* Claims about failing and repeated requests *)

\* C11: if every configured Overpass base fails for an overlay load (the last
\* base of a load that was not aborted answers with a network error, a non-OK
\* status or a malformed body), the failure is swallowed: the component stays
\* mounted, the displayed data of that overlay and of all other overlays, the
\* toggle flags, the loads of the other overlays and the status are unchanged,
\* the load is over, and the loading flag of that overlay is cleared.
C11_OverlayFailureSwallowed ==
  [][ \A ld \in overlayLoads :
        (/\ event'.op = "OverlaySettle" /\ event'.arg = <<ld.id, "fail">>
         /\ ~ld.aborted /\ ld.i = Len(ld.bases))
          => /\ alive' = alive /\ status' = status
             /\ overlaySrc' = overlaySrc /\ overlays' = overlays
             /\ overlayAbort' = overlayAbort
             /\ overlayLoads' = overlayLoads \ {ld}
             /\ overlayLoading' = [overlayLoading EXCEPT ![ld.key] = FALSE] ]_vars

\* the reload of an overlay that shows data has failed on every base: the data
\* of the earlier load is still shown and the loading flag is off
C11_Witness ==
  \E k \in OverlayKeys :
    /\ event.op = "OverlaySettle" /\ event.arg[2] = "fail"
    /\ overlayAbort[k] = event.arg[1]
    /\ \A ld \in overlayLoads : ld.id # event.arg[1]
    /\ overlaySrc[k] # Empty /\ overlaySrc[k][1].load < event.arg[1]
    /\ ~overlayLoading[k]


\* one step sends no request again: a search and a route computation send the
\* one request they start with and none when it settles; an overlay load starts
\* with the first entry of the configured list, goes on to the next entry only
\* when the entry before it failed, stops at the first entry that answers and
\* shows the data of that entry
NoRetryStep ==
  /\ Cardinality({f.id : f \in searchFetches'} \ {f.id : f \in searchFetches}) <= 1
  /\ Cardinality({f.id : f \in routeFetches'} \ {f.id : f \in routeFetches}) <= 1
  /\ \A f, g \in searchFetches' : f.id = g.id => f = g
  /\ \A f, g \in routeFetches' : f.id = g.id => f = g
  /\ \A f \in searchFetches' : f.id \in {g.id : g \in searchFetches} \/ f.id > searchCount
  /\ \A f \in routeFetches' : f.id \in {g.id : g \in routeFetches} \/ f.id > routeCount
  /\ event'.op = "SearchSettle" => searchFetches' \subseteq searchFetches
  /\ event'.op = "RouteSettle" => routeFetches' \subseteq routeFetches
  /\ \A ld \in overlayLoads' : ld.id > loadCount => ld.i = 1
  /\ \A ld \in overlayLoads :
       (event'.op = "OverlaySettle" /\ event'.arg[1] = ld.id)
         => /\ overlayLoads' \ overlayLoads \subseteq {[ld EXCEPT !.i = ld.i + 1]}
            /\ (event'.arg[2] = "ok" /\ ~ld.aborted)
                 => /\ overlayLoads' = overlayLoads \ {ld}
                    /\ mapState = "loaded"
                         => overlaySrc'[ld.key]
                              = <<[load |-> ld.id, key |-> ld.key, base |-> ld.bases[ld.i]]>>
            /\ (event'.arg[2] = "fail" /\ ~ld.aborted /\ ld.i < Len(ld.bases))
                 => /\ overlayLoads' = (overlayLoads \ {ld}) \cup {[ld EXCEPT !.i = ld.i + 1]}
                    /\ overlaySrc' = overlaySrc
            /\ (event'.arg[2] = "fail" /\ ~ld.aborted /\ ld.i = Len(ld.bases))
                 => overlayLoads' = overlayLoads \ {ld}

\* C12 as stated: there is no retry: within one search, one route computation
\* or one overlay load each configured endpoint receives at most one request
\* (the bases one overlay load has asked so far are pairwise different); an
\* overlay load tries the bases in configured order, stops at the first base
\* that answers and applies the data of exactly that base.
C12_OneRequestPerEndpoint ==
  [][ /\ NoRetryStep
      /\ \A ld \in overlayLoads' :
           \A m, n \in 1..ld.i : m # n => ld.bases[m] # ld.bases[n] ]_vars

\* C12 as amended: there is no retry: a search and a route computation send
\* one request each; an overlay load sends at most one request per entry of
\* the configured Overpass list, in the order of the list, stops at the first
\* entry that answers and applies the data of exactly that entry.  A base that
\* the list names twice is asked twice when its first request fails.
C12_OneRequestPerEntry ==
  [][NoRetryStep]_vars

\* an overlay load has asked the second entry of the list after the first one
\* failed, and the second entry names the same base
C12_Witness ==
  \E ld \in overlayLoads :
    /\ ld.i = 2 /\ ld.bases[1] = ld.bases[2] /\ ~ld.aborted
    /\ event.op = "OverlaySettle" /\ event.arg = <<ld.id, "fail">>


----------------------------------------------------------------------------
(* Claims about the status overlay, checked under SpecStatus *)

\* C13: a status message surfaced for a failure is transient: after a map
\* error has set the status text, the status is eventually cleared again
\* without the component being reloaded.
C13_StatusTransient == (status = "error") ~> (status = "")


----------------------------------------------------------------------------
(* Further claims about the route planner, checked under SpecRoute *)

\* C14: each road-route computation contacts one routing endpoint only: a
\* step starts at most one request, for the waypoint list and to the base of
\* the engine that the configuration selects when the computation starts
\* (osrmBase for OSRM, valhallaBase for Valhalla, never the other one); a
\* computation with fewer than two waypoints sends no request, and a request
\* that settles sends no further one.
C14_OneRoutingEndpoint ==
  [][ LET started == {f \in routeFetches' : f.id > routeCount} IN
      /\ Cardinality(started) <= 1
      /\ \A f \in started :
           /\ f.engine = config'.routingEngine
           /\ f.engine = "osrm" => f.base = config'.osrmBase /\ f.base # config'.valhallaBase
           /\ f.engine = "valhalla" => f.base = config'.valhallaBase /\ f.base # config'.osrmBase
           /\ f.wps = waypoints' /\ Len(f.wps) >= 2
      /\ Len(waypoints') < 2 => started = {}
      /\ event'.op = "RouteSettle" => started = {} ]_vars

\* the engine was switched to Valhalla on a loaded map with a route, and the
\* computation this started has sent its request to the Valhalla base
C14_Witness ==
  /\ event.op = "SetRoutingEngine" /\ config.routingEngine = "valhalla"
  /\ \E f \in routeFetches :
       f.id = routeCount /\ f.engine = "valhalla" /\ f.base = config.valhallaBase


----------------------------------------------------------------------------
(* Claims about coordinates, checked under SpecCoords *)

FiniteCoord(c) == Len(c) = 2 /\ Finite(c[1]) /\ Finite(c[2])

\* C15: in every reachable state every coordinate held in a suggestion, a
\* waypoint, a saved route or a favorite is a finite [longitude, latitude]
\* pair, whatever the geocoder returns, the map reports as its centre or local
\* storage contains at restore time.
C15_FiniteCoordinates ==
  /\ \A i \in 1..Len(suggestions) : FiniteCoord(suggestions[i].center)
  /\ \A i \in 1..Len(waypoints) : FiniteCoord(waypoints[i].coord)
  /\ \A i \in 1..Len(savedRoutes) :
       \A j \in 1..Len(savedRoutes[i].waypoints) : FiniteCoord(savedRoutes[i].waypoints[j].coord)
  /\ \A i \in 1..Len(favoritesRef) : FiniteCoord(favoritesRef[i].coordinates)


----------------------------------------------------------------------------
(* Claims about decodeValhallaShape, checked under SpecDecode *)

\* the polyline encoding of one number: zigzag, then 5-bit chunks, low chunk first,
\* every chunk but the last with the continuation bit, each plus 63
RECURSIVE EncodeChunks(_)
EncodeChunks(z) ==
  IF z < 32 THEN <<z + 63>> ELSE <<(z % 32) + 32 + 63>> \o EncodeChunks(z \div 32)

EncodeNumber(v) == EncodeChunks(IF v < 0 THEN -2 * v - 1 ELSE 2 * v)

\* the well-formed string for a list of (latitude, longitude) deltas
RECURSIVE EncodeDeltas(_)
EncodeDeltas(ds) ==
  IF ds = <<>> THEN <<>>
  ELSE EncodeNumber(Head(ds)[1]) \o EncodeNumber(Head(ds)[2]) \o EncodeDeltas(Tail(ds))

\* the points the deltas describe: running sums, as [lon, lat]
RECURSIVE RunningSums(_, _, _)
RunningSums(ds, lat, lon) ==
  IF ds = <<>> THEN <<>>
  ELSE <<<<lon + Head(ds)[2], lat + Head(ds)[1]>>>>
         \o RunningSums(Tail(ds), lat + Head(ds)[1], lon + Head(ds)[2])

\* the deltas whose encoding uses the characters of ShapeChars, and the lists of
\* them that fit into MaxShape characters
Deltas == {-33, -17, -1, 1}
DeltaLists == UNION {[1..n -> Deltas \X Deltas] : n \in 0..(MaxShape \div 2)}

\* the well-formed shapes with the points they encode
WellFormed == {<<EncodeDeltas(ds), RunningSums(ds, 0, 0)>> : ds \in DeltaLists}
IsWellFormed(shape) == \E e \in WellFormed : e[1] = shape
PointsOf(shape) == (CHOOSE e \in WellFormed : e[1] = shape)[2]

RECURSIVE ConcatPoints(_)
ConcatPoints(legs) ==
  IF legs = <<>> THEN <<>> ELSE PointsOf(Head(legs)) \o ConcatPoints(Tail(legs))

\* C16: decodeValhallaShape decodes the polyline6 format: for a well-formed
\* string that encodes n points it returns exactly n coordinates in
\* [longitude, latitude] order, the k-th being the running sum of the first k
\* zigzag-decoded (latitude, longitude) deltas (in units of 1e-6); a Valhalla
\* route is the concatenation of its legs' decoded shapes in leg order, each
\* leg decoded from origin 0.
C16_DecodesPolyline6 ==
  /\ (decoder.pc = "return" /\ IsWellFormed(decoder.shape))
       => decoder.coordinates = PointsOf(decoder.shape)
  /\ (decoder.pc = "done" /\ \A i \in 1..Len(decoder.legs) : IsWellFormed(decoder.legs[i]))
       => decoder.coords = ConcatPoints(decoder.legs)

\* a route of two legs has been decoded, and the points of the second leg start
\* again from origin 0
C16_Witness ==
  /\ decoder.pc = "done" /\ Len(decoder.legs) = 2
  /\ decoder.legs[1] = <<64, 65>> /\ decoder.legs[2] = <<65, 64>>
  /\ decoder.coords = << <<1, -1>>, <<-1, 1>> >>

\* C17: decodeValhallaShape terminates on every input string, also an empty,
\* a truncated or a malformed one, and never reads the index backwards: every
\* iteration of its loops moves the index forward by one position (a read
\* past the end of a truncated string counts as a character), and the index
\* never passes the end of the string by more than two, so a call makes at
\* most length + 2 iterations.
C17_DecodeTerminates ==
  [][ /\ decoder.pc \in {"lat", "lon"}
           => /\ decoder'.index = decoder.index + 1
              /\ decoder'.index <= Len(decoder.shape) + 2
              /\ decoder'.shape = decoder.shape
              /\ decoder'.pc \in {"lat", "lon"} => decoder'.index <= Len(decoder.shape) + 1
      /\ decoder'.pc \in {"lat", "lon"} /\ decoder.pc \notin {"lat", "lon"}
           => decoder'.index = 0 /\ Len(decoder'.shape) > 0 ]_vars

\* a call has returned from a string cut off in the middle of a latitude, after
\* two reads past its end; the string also holds characters below the range
C17_Witness ==
  /\ decoder.pc = "return" /\ decoder.shape = <<62, 62, 96>>
  /\ decoder.index = Len(decoder.shape) + 2


----------------------------------------------------------------------------
(* C18 *)

\* C18: when flyToSuggestion runs on an existing map for a suggestion whose geocoder
\* feature carries a bbox member of four elements [a, b, c, d], the bounds it passes to
\* fitBounds are [[a, b], [c, d]], the feature's own two corners in their own order;
\* for a feature with no bbox member or one of another length it calls flyTo with the
\* feature's coordinates as centre.
C18_BoxRoundTrip ==
  [][(event'.op = "FlyToSuggestion" /\ MapExists(S)) =>
       LET f == suggestions[event'.arg[1]].raw IN
       IF f.bbox # None /\ Len(f.bbox[1]) = 4
         THEN camera' = [op |-> "fitBounds",
                         bounds |-> <<<<f.bbox[1][1], f.bbox[1][2]>>,
                                      <<f.bbox[1][3], f.bbox[1][4]>>>>]
         ELSE camera' = [op |-> "flyTo", center |-> f.coordinates]]_vars

\* a suggestion with the box 10, 20, 30, 40 has been shown on the loaded map
C18_Witness ==
  /\ event.op = "FlyToSuggestion" /\ mapState = "loaded"
  /\ lastSelectedRef # None /\ lastSelectedRef[1].raw.bbox = Some(<<"10", "20", "30", "40">>)
  /\ camera = [op |-> "fitBounds", bounds |-> <<<<"10", "20">>, <<"30", "40">>>>]


----------------------------------------------------------------------------
(* C19 *)

\* the list ws without its element at the 1-based position k
DropAt(ws, k) == SubSeq(ws, 1, k - 1) \o SubSeq(ws, k + 1, Len(ws))

\* C19: a call of addWaypointAt (from "Zur Route" with the insertion point as index,
\* from "Punkt: Kartenmitte" with no index) makes the waypoint list one longer; the
\* new waypoint stands right after the 0-based position index when
\* 0 <= index < length and last when index is absent or out of range; taking it
\* out again leaves the list as it was, every waypoint in its old order.
C19_InsertKeepsOrder ==
  [][event'.op \in {"AddSuggestionToRoute", "AddMapCenter"} =>
       LET index == IF event'.op = "AddMapCenter" THEN None ELSE insertAfter
           k == IF index # None /\ 0 <= index[1] /\ index[1] < Len(waypoints)
                  THEN index[1] + 2 ELSE Len(waypoints) + 1
       IN /\ Len(waypoints') = Len(waypoints) + 1
          /\ waypoints'[k].id = uidCount'
          /\ \A i \in 1..Len(waypoints) : waypoints[i].id # uidCount'
          /\ DropAt(waypoints', k) = waypoints]_vars

\* a search result has been put between the two waypoints of the list
C19_Witness ==
  /\ event.op = "AddSuggestionToRoute" /\ insertAfter = Some(0)
  /\ Len(waypoints) = 3 /\ waypoints[1].id = 8 /\ waypoints[2].id = 1 /\ waypoints[3].id = 9


----------------------------------------------------------------------------
(* C20 *)

\* the list ws with the elements at the 1-based positions a and b exchanged
Exchanged(ws, a, b) == [ws EXCEPT ![a] = ws[b], ![b] = ws[a]]

\* the 1-based positions of ws that hold a waypoint with this id
PositionsOf(ws, id) == {k \in 1..Len(ws) : ws[k].id = id}

\* the up / down button: the waypoint changes places with its neighbour in the
\* direction dir, and nothing happens for an id the list does not hold or when that
\* neighbour does not exist
MoveExchanges ==
  event'.op = "MoveWaypoint" =>
    LET id == event'.arg[1]
        dir == event'.arg[2]
    IN IF PositionsOf(waypoints, id) = {} THEN waypoints' = waypoints
       ELSE \E k \in PositionsOf(waypoints, id) :
              IF k + dir < 1 \/ k + dir > Len(waypoints) THEN waypoints' = waypoints
              ELSE waypoints' = Exchanged(waypoints, k, k + dir)

\* the remove button: the waypoint with the id leaves the list, the others stay as
\* they stand
RemoveShrinks ==
  event'.op = "RemoveWaypoint" =>
    LET id == event'.arg[1]
    IN IF PositionsOf(waypoints, id) = {} THEN waypoints' = waypoints
       ELSE \E k \in PositionsOf(waypoints, id) : waypoints' = DropAt(waypoints, k)

\* C20 as stated: moveWaypoint exchanges the waypoint with its neighbour in direction
\* dir and is a no-op for an unknown id or at the first / last position,
\* removeWaypoint takes out the waypoint with the id and keeps the others in order,
\* and after any move up, moving the same waypoint down gives the list as it was
\* before the move up.
C20_UpThenDownRestores ==
  [][/\ MoveExchanges
     /\ RemoveShrinks
     /\ (event'.op = "MoveWaypoint" /\ event'.arg[2] = -1) =>
          moveWaypoint([waypoints |-> waypoints'], event'.arg[1], 1).waypoints = waypoints]_vars

\* C20, amended: as above, but moving down gives back the list from before the move
\* up only when the move up took place, that is when the waypoint was not the first
\* of the list.
C20_ReorderOrShrink ==
  [][/\ MoveExchanges
     /\ RemoveShrinks
     /\ (event'.op = "MoveWaypoint" /\ event'.arg[2] = -1
           /\ 1 \notin PositionsOf(waypoints, event'.arg[1])) =>
          moveWaypoint([waypoints |-> waypoints'], event'.arg[1], 1).waypoints = waypoints]_vars

\* the second of the two restored waypoints has been moved up on the loaded map
C20_Witness ==
  /\ event = Ev("MoveWaypoint", <<9, -1>>) /\ mapState = "loaded"
  /\ Len(waypoints) = 2 /\ waypoints[1].id = 9 /\ waypoints[2].id = 8


----------------------------------------------------------------------------
(* C21 *)

\* C21: while the query is blank (after clearSearch or after the text was deleted)
\* the suggestion list is empty and hidden, also when a search for the old text was
\* still in flight or waiting in the debounce timer at the moment of clearing.
C21_ClearCancelsSearch ==
  Blank(query) => (suggestions = Empty /\ ~showSuggestions)


----------------------------------------------------------------------------
(* C22 *)

\* C22: when a move of the map ends at zoom 4 or higher, every overlay whose toggle
\* is on at that moment gets a new load for the new viewport and keeps the data it
\* shows, and only the overlays whose toggle is off are cleared.
C22_MoveEndReloadsActive ==
  [][(event'.op = "MoveEnd" /\ event'.arg[1]) =>
       \A k \in OverlayKeys :
         overlays[k] => (overlayAbort'[k] > loadCount /\ overlaySrc'[k] = overlaySrc[k])]_vars


----------------------------------------------------------------------------
(* C23 *)

\* C23: in the mounted page the routing busy flag is true exactly while at least one
\* road-routing request is in flight.
C23_BusyWhileRouting ==
  alive => (routingBusy <=> routeFetches # {})


----------------------------------------------------------------------------
(* C24 *)

\* C24: in the mounted page, for each overlay key the loading flag is true exactly
\* while a load of that key that has not been aborted is in flight.
C24_LoadingWhileLoadInFlight ==
  alive => \A k \in OverlayKeys :
             overlayLoading[k] <=> (\E ld \in overlayLoads : ld.key = k /\ ~ld.aborted)


----------------------------------------------------------------------------
(* C25 *)

\* the saved route with this id in the list rs
SavedWithId(rs, id) == rs[CHOOSE i \in 1..Len(rs) : rs[i].id = id]

\* C25: saveCurrentRoute stores the waypoint sequence that is current; no later step
\* (add, move, remove, clear, load, map load) changes the waypoints of a saved route
\* that stays in the list; and loadRoute makes the stored sequence of that route the
\* current one.  So a load gives back the sequence of the time of saving.
C25_SavedRouteIsSnapshot ==
  [][/\ event'.op = "SaveCurrentRoute" =>
          /\ Len(savedRoutes') = Len(savedRoutes) + 1
          /\ savedRoutes'[1].waypoints = waypoints
          /\ savedRoutes'[1].id \notin SavedIds
     /\ \A i \in 1..Len(savedRoutes) : \A j \in 1..Len(savedRoutes') :
          savedRoutes'[j].id = savedRoutes[i].id =>
            savedRoutes'[j].waypoints = savedRoutes[i].waypoints
     /\ event'.op = "LoadRoute" =>
          waypoints' = SavedWithId(savedRoutes, event'.arg[1]).waypoints]_vars

\* the route saved with two waypoints has been loaded again after one of the two had
\* been removed from the current route
C25_Witness ==
  /\ event = Ev("LoadRoute", <<1>>) /\ waypoints = StoredRoute /\ routeCount = 2
  /\ Len(savedRoutes) = 2 /\ savedRoutes[1].id = 1 /\ savedRoutes[1].waypoints = StoredRoute


----------------------------------------------------------------------------
(* C26 *)

\* the ids of the saved routes that localStorage holds
StoredSavedIds(st) ==
  IF st.saved = None THEN {} ELSE {st.saved[1][i].id : i \in 1..Len(st.saved[1])}

\* C26: a saved route that is in localStorage leaves it only through deleteRoute
\* with its id; saving a new route keeps every route stored before, also before the
\* stored lists have been restored at map load.
C26_StoredRoutesKept ==
  [][\A id \in StoredSavedIds(storage) :
       id \in StoredSavedIds(storage') \/ event' = Ev("DeleteRoute", <<id>>)]_vars


----------------------------------------------------------------------------
(* C27 *)

\* the id of the waypoint after which a search result would be placed: the one at
\* the 0-based position insertAfter, none when there is no such position
InsertionWaypoint(ws, index) ==
  IF index # None /\ 0 <= index[1] /\ index[1] < Len(ws) THEN {ws[index[1] + 1].id} ELSE {}

\* C27: the insertion point keeps designating the waypoint on which "hier" was
\* pressed: unless the button is pressed again, no step (add, move, remove, load,
\* map load) makes it designate another waypoint than before; it may only come to
\* designate none, when that waypoint has left the list.
C27_InsertionPointFollowsWaypoint ==
  [][event'.op # "SetInsertAfter" =>
       InsertionWaypoint(waypoints', insertAfter') \subseteq
         InsertionWaypoint(waypoints, insertAfter)]_vars


----------------------------------------------------------------------------
(* C28 *)

\* C28: once the map has loaded, the label language applied to the map is the
\* language selected at that moment.
C28_MapLanguageIsSelected ==
  mapState = "loaded" => mapLang = lang


----------------------------------------------------------------------------
(* C29 *)

EarlyOps ==
  {"ClearUserMarkers", "AddSuggestionToFavorites", "AddSuggestionToRoute", "AddMapCenter",
   "ClearRoute"}

\* C29: a user action taken while the map object exists and its load event has not
\* yet created the sources does not fail (the page stays mounted) and leaves no
\* list changed in memory without the display and the storage that go with it: a
\* changed favorites list is shown and stored, a changed marker list is shown, a
\* changed waypoint list is stored.
C29_EarlyActionsWhole ==
  [][(mapState = "created" /\ event'.op \in EarlyOps) =>
       /\ alive'
       /\ favoritesRef' # favoritesRef =>
            (favoritesSrc' = favoritesRef' /\ storage'.favorites = Some(jsonFavorites(favoritesRef')))
       /\ userMarkersRef' # userMarkersRef => userMarkersSrc' = userMarkersRef'
       /\ waypoints' # waypoints => storage'.current = Some(jsonWaypoints(waypoints'))]_vars


----------------------------------------------------------------------------
(* C30 *)

\* the [lon, lat] pair an Overpass element carries: lon / lat of a node, center.lon /
\* center.lat of a way or relation; none when a member is absent
CarriedCoordinates(el) ==
  LET c == IF el.type = "node" THEN <<el.lon, el.lat>>
           ELSE IF el.center = None THEN <<"undefined", "undefined">>
           ELSE <<el.center[1].lon, el.center[1].lat>>
  IN IF c[1] = "undefined" \/ c[2] = "undefined" THEN None ELSE Some(c)

\* C30: when an Overpass answer with one element is written to the overlay source of
\* a loaded map, the source holds one point feature at the element's [lon, lat] if
\* the element carries coordinates, a coordinate equal to 0 included, and no feature
\* only if the element carries none.
C30_ElementToPointFeature ==
  [][(event'.op = "OverlaySettleElements" /\ mapState = "loaded") =>
       LET key == event'.arg[1]
           c == CarriedCoordinates(event'.arg[2])
       IN IF c = None THEN overlaySrc'[key] = Empty
          ELSE Len(overlaySrc'[key]) = 1 /\ overlaySrc'[key][1].coordinates = c[1]]_vars

====
